---- MODULE Spec2Model ----
(***************************************************************************)
(* PeerSync backend: the WebSocket gateway (PeerSyncGateway), the peer     *)
(* registry (PeerRegistryService), the session and request registries      *)
(* (SessionService) and the socket registry (MessagingService).            *)
(*                                                                         *)
(* One action is one run-to-completion block of the Node.js event loop: a  *)
(* handler from its entry (or from the await it resumed at) to its return  *)
(* (or to its next await).  A socket's 'close' event, which runs           *)
(* handleDisconnect, is a later event than the close() call, the client's  *)
(* close or the transport failure that caused it.                          *)
(***************************************************************************)
EXTENDS Integers, Sequences, FiniteSets, TLC

\* ------------------------------------------------------------------ bounds
MaxSockets == 2
MaxAuthTasks == 2
MaxRequests == 1
MaxSessions == 1
MaxPeerSessionIds == 2   \* session ids handed to the peer registry called on its own

\* ------------------------------------------------------- program constants
AUTH_TIMEOUT_MS == 10000
REQUEST_EXPIRY_MS == 30000
CLOSE_AUTH == 4001
CLOSE_SUPERSEDED == 4002

\* ------------------------------------------------------------- value sets
Socks == 1..MaxSockets
Users == {"u1", "u2"}
UserOrder == <<"u1", "u2">>
Nets == {"n1", "n2"}
Null == "null"
NetOrNull == Nets \cup {Null}
\* What the token of an AUTH frame verifies to: a user, or a failure kind.
Tokens == Users \cup {"invalid", "expired"}
NoToken == "none"
ReqIds == 1..MaxRequests
SesIds == 1..MaxSessions

AUTH_TOKEN_MISSING == "ERR_1001"
AUTH_TOKEN_INVALID == "ERR_1002"
AUTH_TOKEN_EXPIRED == "ERR_1003"
PEER_NOT_FOUND == "ERR_2001"
PEER_ALREADY_CONNECTED == "ERR_2005"
PEER_NOT_REGISTERED == "ERR_2006"
\* ErrorCodes has no member PEER_NOT_IN_SAME_NETWORK: the expression the gateway
\* passes to emitError evaluates to undefined.
PEER_NOT_IN_SAME_NETWORK == "undefined"
SESSION_NOT_FOUND == "ERR_3001"
SESSION_NOT_PARTICIPANT == "ERR_3008"
MESSAGE_TARGET_OFFLINE == "ERR_4003"
WS_INVALID_MESSAGE == "ERR_5003"
WS_NOT_AUTHENTICATED == "ERR_5005"
CONNECTION_REQUEST_NOT_FOUND == "ERR_6001"
CONNECTION_REQUEST_UNAUTHORIZED == "ERR_6004"
VALIDATION_FAILED == "ERR_9003"

VARIABLES
  readyState,          \* socket id -> "none" | "open" | "closing" | "closed"
  state,               \* socket id -> SocketState
  authTasks,           \* handleAuth invocations suspended at their await of
                       \* getActiveNetworkId
  peersByUserId,       \* PeerRegistryService.peersByUserId
  socketIdToUserId,    \* PeerRegistryService.socketIdToUserId
  sockets,             \* MessagingService.sockets (its key set)
  sessions,            \* SessionService.sessions
  connectionRequests,  \* SessionService.connectionRequests
  nextId,              \* the next fresh request id and session id
  out,                 \* the frames the last step sent and the close() calls
                       \* it made on open sockets (event "close()"), in order
  last                 \* the event the last step handled

vars == <<readyState, state, authTasks, peersByUserId, socketIdToUserId, sockets,
          sessions, connectionRequests, nextId, out, last>>

NoPeer == [userId |-> Null]
NoSession == [sessionId |-> 0]
NoRequest == [requestId |-> 0]

\* The state handleConnection gives a new socket.
NewSocketState(s) ==
  [socketId |-> s, isAuthenticated |-> FALSE, isRegistered |-> FALSE,
   user |-> Null, isAlive |-> TRUE, networkId |-> Null]

\* The four registries as one value, so that a service method is an operator
\* from registries to registries.
Regs ==
  [byUser |-> peersByUserId, bySock |-> socketIdToUserId, sockets |-> sockets,
   sessions |-> sessions, requests |-> connectionRequests]

SetRegs(W) ==
  /\ peersByUserId' = W.byUser
  /\ socketIdToUserId' = W.bySock
  /\ sockets' = W.sockets
  /\ sessions' = W.sessions
  /\ connectionRequests' = W.requests

regVars == <<peersByUserId, socketIdToUserId, sockets, sessions, connectionRequests>>

\* ---------------------------------------------------------- peer registry
isPeerRegistered(W, userId) == W.byUser[userId] # NoPeer

registerPeer(W, userId, socketId, networkId) ==
  LET existingPeer == W.byUser[userId]
      idx1 == IF existingPeer # NoPeer
              THEN [W.bySock EXCEPT ![existingPeer.socketId] = Null]
              ELSE W.bySock
      peer == [userId |-> userId, socketId |-> socketId, status |-> "online",
               sessionIds |-> IF existingPeer # NoPeer THEN existingPeer.sessionIds
                              ELSE <<>>,
               networkId |-> networkId]
  IN [W EXCEPT !.byUser = [W.byUser EXCEPT ![userId] = peer],
               !.bySock = [idx1 EXCEPT ![socketId] = userId]]

unregisterPeerByUserIdKeepsSocket(W, userId) ==
  [W EXCEPT !.byUser = [W.byUser EXCEPT ![userId] = NoPeer]]

unregisterPeerByUserId(W, userId) ==
  LET peer == W.byUser[userId]
  IN IF peer = NoPeer THEN W
     ELSE [W EXCEPT !.bySock = [W.bySock EXCEPT ![peer.socketId] = Null],
                    !.byUser = [W.byUser EXCEPT ![userId] = NoPeer]]

unregisterPeerBySocketId(W, socketId) ==
  LET userId == W.bySock[socketId]
  IN IF userId = Null THEN W ELSE unregisterPeerByUserId(W, userId)

Contains(seq, x) == \E i \in 1..Len(seq) : seq[i] = x

addSessionToPeerAlways(W, userId, sessionId) ==
  LET peer == W.byUser[userId]
  IN IF peer = NoPeer THEN W
     ELSE [W EXCEPT !.byUser[userId].sessionIds = Append(peer.sessionIds, sessionId)]

addSessionToPeer(W, userId, sessionId) ==
  LET peer == W.byUser[userId]
  IN IF peer = NoPeer THEN W
     ELSE IF Contains(peer.sessionIds, sessionId) THEN W
     ELSE [W EXCEPT !.byUser[userId].sessionIds = Append(peer.sessionIds, sessionId)]

\* indexOf + splice(idx, 1): the first occurrence is removed.
RemoveFirst(seq, x) ==
  IF ~Contains(seq, x) THEN seq
  ELSE LET idx == CHOOSE i \in 1..Len(seq) :
                    seq[i] = x /\ \A j \in 1..(i - 1) : seq[j] # x
       IN SubSeq(seq, 1, idx - 1) \o SubSeq(seq, idx + 1, Len(seq))

removeSessionFromPeer(W, userId, sessionId) ==
  LET peer == W.byUser[userId]
  IN IF peer = NoPeer THEN W
     ELSE [W EXCEPT !.byUser[userId].sessionIds = RemoveFirst(peer.sessionIds, sessionId)]

getOnlinePeers(W) == {u \in Users : W.byUser[u] # NoPeer /\ W.byUser[u].status = "online"}

getOnlinePeersInNetworkUnscoped(W, networkId) == getOnlinePeers(W)

getOnlinePeersInNetwork(W, networkId) ==
  {u \in getOnlinePeers(W) : W.byUser[u].networkId = networkId}

\* -------------------------------------------------------- socket registry
registerSocket(W, socketId) == [W EXCEPT !.sockets = W.sockets \cup {socketId}]
unregisterSocket(W, socketId) == [W EXCEPT !.sockets = W.sockets \ {socketId}]
getSocket(W, socketId) == socketId \in W.sockets

\* ------------------------------------------------ session/request registry
\* Request and session ids are fresh (a timestamp with a random suffix, a
\* uuid): the model hands them out in order, from nextId, and never reuses one.
\* A request carries its age, now - createdAt, in place of createdAt.
createConnectionRequest(W, requestId, fromUserId, toUserId) ==
  [W EXCEPT !.requests[requestId] =
     [requestId |-> requestId, fromUserId |-> fromUserId, toUserId |-> toUserId,
      age |-> 0]]

IsExpiredAtExpiry(request) == request.age >= REQUEST_EXPIRY_MS

IsExpired(request) == request.age > REQUEST_EXPIRY_MS

\* The request getConnectionRequest returns (NoRequest for undefined).
getConnectionRequest(W, requestId) ==
  LET request == W.requests[requestId]
  IN IF request = NoRequest THEN NoRequest
     ELSE IF IsExpired(request) THEN NoRequest
     ELSE request

\* The registries getConnectionRequest leaves: an expired entry is evicted.
getConnectionRequestEffect(W, requestId) ==
  LET request == W.requests[requestId]
  IN IF request # NoRequest /\ IsExpired(request)
     THEN [W EXCEPT !.requests[requestId] = NoRequest]
     ELSE W

removeConnectionRequestNone(W, requestId) == W

removeConnectionRequest(W, requestId) == [W EXCEPT !.requests[requestId] = NoRequest]

cleanupExpiredRequestsNone(W) == W

cleanupExpiredRequests(W) ==
  [W EXCEPT !.requests =
     [r \in ReqIds |-> IF W.requests[r] # NoRequest /\ IsExpired(W.requests[r])
                       THEN NoRequest ELSE W.requests[r]]]

createSessionForPeers(W, sessionId, user1Id, user1SocketId, user2Id, user2SocketId) ==
  LET session == [sessionId |-> sessionId, hostUserId |-> user1Id,
                  participants |-> [u \in {user1Id, user2Id} |->
                                      IF u = user2Id THEN user2SocketId
                                      ELSE user1SocketId]]
      W1 == [W EXCEPT !.sessions[sessionId] = session]
  IN addSessionToPeer(addSessionToPeer(W1, user1Id, sessionId), user2Id, sessionId)

getSession(W, sessionId) == W.sessions[sessionId]

isParticipant(W, sessionId, userId) ==
  /\ W.sessions[sessionId] # NoSession
  /\ userId \in DOMAIN W.sessions[sessionId].participants

getSessionParticipants(W, sessionId) ==
  IF W.sessions[sessionId] = NoSession THEN {}
  ELSE DOMAIN W.sessions[sessionId].participants

RECURSIVE RemoveFromPeers(_, _, _)
RemoveFromPeers(W, userIds, sessionId) ==
  IF userIds = {} THEN W
  ELSE LET u == CHOOSE x \in userIds : TRUE
       IN RemoveFromPeers(removeSessionFromPeer(W, u, sessionId), userIds \ {u}, sessionId)

endSession(W, sessionId) ==
  LET session == W.sessions[sessionId]
  IN IF session = NoSession THEN W
     ELSE [RemoveFromPeers(W, DOMAIN session.participants, sessionId)
             EXCEPT !.sessions[sessionId] = NoSession]

removeParticipantOnly(W, sessionId, userId) ==
  LET session == W.sessions[sessionId]
  IN IF session = NoSession THEN W
     ELSE IF userId \notin DOMAIN session.participants THEN W
     ELSE LET rest == DOMAIN session.participants \ {userId}
              W1 == [W EXCEPT !.sessions[sessionId].participants =
                                 [u \in rest |-> session.participants[u]]]
          IN removeSessionFromPeer(W1, userId, sessionId)

removeParticipant(W, sessionId, userId) ==
  LET session == W.sessions[sessionId]
  IN IF session = NoSession THEN W
     ELSE IF userId \notin DOMAIN session.participants THEN W
     ELSE LET rest == DOMAIN session.participants \ {userId}
              W1 == [W EXCEPT !.sessions[sessionId].participants =
                                 [u \in rest |-> session.participants[u]]]
              W2 == removeSessionFromPeer(W1, userId, sessionId)
          IN IF rest = {} \/ userId = session.hostUserId
             THEN endSession(W2, sessionId)
             ELSE W2

RECURSIVE LeaveSessions(_, _, _)
LeaveSessions(W, ids, userId) ==
  IF ids = {} THEN W
  ELSE LET sid == CHOOSE x \in ids : \A y \in ids : x <= y
           W1 == IF W.sessions[sid] # NoSession
                    /\ userId \in DOMAIN W.sessions[sid].participants
                 THEN removeParticipant(W, sid, userId)
                 ELSE W
       IN LeaveSessions(W1, ids \ {sid}, userId)

handleUserDisconnect(W, userId) ==
  LET W1 == LeaveSessions(W, SesIds, userId)
  IN [W1 EXCEPT !.requests =
        [r \in ReqIds |->
           IF W1.requests[r] # NoRequest
              /\ (W1.requests[r].fromUserId = userId \/ W1.requests[r].toUserId = userId)
           THEN NoRequest ELSE W1.requests[r]]]

\* ------------------------------------------------------------------ frames
\* The payload fields the claims read: an error code, the user a frame is
\* about, a peer list, a request or session id (or close code), a status.
NoData == [code |-> Null, about |-> Null, peers |-> {}, ref |-> 0, status |-> Null]

Frame(to, event, data) ==
  [to |-> to, event |-> event, code |-> data.code, about |-> data.about,
   peers |-> data.peers, ref |-> data.ref, status |-> data.status]

\* emit: a frame is sent only to a socket that is OPEN.
emit(ready, frames, to, event, data) ==
  IF ready[to] = "open" THEN Append(frames, Frame(to, event, data)) ELSE frames

emitError(ready, frames, to, code) ==
  emit(ready, frames, to, "ERROR", [NoData EXCEPT !.code = code])

\* socket.close(code): the first call on an open socket starts the closing
\* handshake; a later call changes nothing.  The call is recorded with its
\* code among the frames, as the event "close()".
closeReady(ready, s) == IF ready[s] = "open" THEN [ready EXCEPT ![s] = "closing"] ELSE ready

closeFrame(ready, frames, s, code) ==
  IF ready[s] = "open"
  THEN Append(frames, Frame(s, "close()", [NoData EXCEPT !.ref = code]))
  ELSE frames

\* The recipients of broadcastPeerStatus(userId, _): every other online peer
\* whose socket is in the socket registry.
broadcastRecipients(W, userId) ==
  {u \in getOnlinePeers(W) : u # userId /\ getSocket(W, W.byUser[u].socketId)}

RECURSIVE broadcastFrom(_, _, _, _, _, _)
broadcastFrom(W, ready, frames, userId, status, i) ==
  IF i > Len(UserOrder) THEN frames
  ELSE LET u == UserOrder[i]
           f1 == IF u \in broadcastRecipients(W, userId)
                 THEN emit(ready, frames, W.byUser[u].socketId, "PEER_STATUS_UPDATE",
                           [NoData EXCEPT !.about = userId, !.status = status])
                 ELSE frames
       IN broadcastFrom(W, ready, f1, userId, status, i + 1)

broadcastPeerStatus(W, ready, frames, userId, status) ==
  broadcastFrom(W, ready, frames, userId, status, 1)

\* ------------------------------------------------------------- dispatcher
Events == {"AUTH", "PEER_REGISTER", "DISCOVER_PEERS", "CONNECTION_REQUEST",
           "CONNECTION_RESPONSE", "SEND_MESSAGE", "PING", "UNKNOWN"}

\* handleMessage: the handler a parsed frame is routed to.
Route(s, event) ==
  IF event = "AUTH" THEN "handleAuth"
  ELSE IF ~state[s].isAuthenticated THEN "notAuthenticated"
  ELSE CASE event = "PEER_REGISTER" -> "handlePeerRegister"
         [] event = "DISCOVER_PEERS" -> "handleDiscoverPeers"
         [] event = "CONNECTION_REQUEST" -> "handleConnectionRequest"
         [] event = "CONNECTION_RESPONSE" -> "handleConnectionResponse"
         [] event = "SEND_MESSAGE" -> "handleSendMessage"
         [] event = "PING" -> "handlePing"
         [] OTHER -> "unknown"

requireRegisteredAlways(s) == TRUE

requireRegistered(s) == state[s].isRegistered

Last(op, s, arg) == [op |-> op, sock |-> s, arg |-> arg]

Init ==
  /\ readyState = [s \in Socks |-> "none"]
  /\ state = [s \in Socks |-> NewSocketState(s)]
  /\ authTasks = {}
  /\ peersByUserId = [u \in Users |-> NoPeer]
  /\ socketIdToUserId = [s \in Socks |-> Null]
  /\ sockets = {}
  /\ sessions = [i \in SesIds |-> NoSession]
  /\ connectionRequests = [r \in ReqIds |-> NoRequest]
  /\ nextId = [request |-> 1, session |-> 1]
  /\ out = <<>>
  /\ last = Last("init", 0, Null)

\* handleConnection: a socket is accepted (socket ids are fresh).
Accept(s) ==
  /\ readyState[s] = "none"
  /\ \A j \in Socks : j < s => readyState[j] # "none"
  /\ readyState' = [readyState EXCEPT ![s] = "open"]
  /\ state' = [state EXCEPT ![s] = NewSocketState(s)]
  /\ out' = <<>>
  /\ last' = Last("accept", s, Null)
  /\ UNCHANGED <<authTasks, regVars, nextId>>

authTimerClosesAnyOpen(s) == readyState[s] = "open"

\* TRUE when the auth timer of handleConnection, firing now, closes socket s.
authTimerCloses(s) == ~state[s].isAuthenticated /\ readyState[s] = "open"

\* The auth timer that handleConnection set for socket s fires, AUTH_TIMEOUT_MS
\* after the accept (the model keeps no clock: the events that fit in that
\* time are the steps taken before this one).  The timer is one-shot.  When it closes the socket, the socket is never open again; when
\* it does not (the socket is authenticated, or not open), that stays so for
\* good, and firing is a step that changes nothing.  So the model keeps no
\* flag for a timer that has fired, and takes the step on open sockets only.
AuthTimeout(s) ==
  /\ readyState[s] = "open"
  /\ out' = IF authTimerCloses(s)
            THEN closeFrame(readyState,
                            emitError(readyState, <<>>, s, AUTH_TOKEN_MISSING),
                            s, CLOSE_AUTH)
            ELSE <<>>
  /\ readyState' = IF authTimerCloses(s) THEN closeReady(readyState, s) ELSE readyState
  /\ last' = Last("authTimeout", s, Null)
  /\ UNCHANGED <<state, authTasks, regVars, nextId>>

\* The supersession block of handleAuth: the registries it leaves.
supersede(W, userId) ==
  IF isPeerRegistered(W, userId)
  THEN unregisterSocket(unregisterPeerByUserId(W, userId), W.byUser[userId].socketId)
  ELSE W

\* The socket the supersession block closes, as a set (empty: none).
supersededSocket(W, userId) ==
  IF isPeerRegistered(W, userId) /\ getSocket(W, W.byUser[userId].socketId)
  THEN {W.byUser[userId].socketId}
  ELSE {}

\* The frames of the supersession block: ERROR to the old socket, then close.
supersedeFrames(W, ready, userId) ==
  IF supersededSocket(W, userId) = {} THEN <<>>
  ELSE LET old == CHOOSE o \in supersededSocket(W, userId) : TRUE
       IN closeFrame(ready, emitError(ready, <<>>, old, PEER_ALREADY_CONNECTED),
                     old, CLOSE_SUPERSEDED)

\* The code handleAuth's catch block reports for a token that fails.
authFailedCode(token) == AUTH_TOKEN_INVALID

\* handleMessage with an AUTH frame: handleAuth up to its await of
\* getActiveNetworkId (or, the token missing or rejected, to its end).
\* validateWsToken does no I/O (jwtService.verify is synchronous), so the
\* promise handleAuth awaits first is already settled and handleAuth resumes
\* in the same turn of the event loop, before any other socket's event or
\* any timer: receiving the frame and verifying the token are one step.
RecvAuth(s, token) ==
  /\ readyState[s] = "open"
  /\ Route(s, "AUTH") = "handleAuth"
  /\ last' = Last("AUTH", s, token)
  /\ IF token \in Users
     THEN LET old == supersededSocket(Regs, token)
          IN /\ Cardinality(authTasks \cup {[sock |-> s, user |-> token]}) <= MaxAuthTasks
             /\ out' = supersedeFrames(Regs, readyState, token)
             /\ readyState' = IF old = {} THEN readyState
                              ELSE closeReady(readyState, CHOOSE o \in old : TRUE)
             /\ SetRegs(supersede(Regs, token))
             /\ state' = [state EXCEPT ![s].isAuthenticated = TRUE, ![s].user = token]
             /\ authTasks' = authTasks \cup {[sock |-> s, user |-> token]}
     ELSE /\ out' = closeFrame(readyState,
                      emit(readyState, <<>>, s, "AUTH_FAILED",
                           [NoData EXCEPT !.code = IF token = NoToken
                                                   THEN AUTH_TOKEN_MISSING
                                                   ELSE authFailedCode(token)]),
                      s, CLOSE_AUTH)
          /\ readyState' = closeReady(readyState, s)
          /\ UNCHANGED <<state, authTasks, regVars>>
  /\ UNCHANGED nextId

\* handleAuth resumes after getActiveNetworkId (networkId: what it returned,
\* null when it returned null or threw) and runs to its end.  The write to
\* the state of a socket whose 'close' event has run is a write to an object
\* nothing reads any more (see HandleDisconnect).
AuthResolvedOrFailed(t, networkId) ==
  /\ t \in authTasks
  /\ state' = IF readyState[t.sock] = "closed" THEN state
            ELSE [state EXCEPT ![t.sock].networkId = networkId]
  /\ IF networkId = Null
     THEN /\ UNCHANGED regVars
          /\ out' = closeFrame(readyState,
                       emit(readyState, <<>>, t.sock, "AUTH_FAILED",
                            [NoData EXCEPT !.code = AUTH_TOKEN_INVALID]),
                       t.sock, CLOSE_AUTH)
          /\ readyState' = closeReady(readyState, t.sock)
     ELSE /\ SetRegs(registerSocket(Regs, t.sock))
          /\ out' = emit(readyState, <<>>, t.sock, "AUTH_SUCCESS",
                         [NoData EXCEPT !.about = t.user])
          /\ readyState' = readyState
  /\ authTasks' = authTasks \ {t}
  /\ last' = Last("authResolved", t.sock, networkId)
  /\ UNCHANGED nextId

AuthResolved(t, networkId) ==
  /\ t \in authTasks
  /\ state' = IF readyState[t.sock] = "closed" THEN state
            ELSE [state EXCEPT ![t.sock].networkId = networkId]
  /\ SetRegs(registerSocket(Regs, t.sock))
  /\ out' = emit(readyState, <<>>, t.sock, "AUTH_SUCCESS", [NoData EXCEPT !.about = t.user])
  /\ authTasks' = authTasks \ {t}
  /\ last' = Last("authResolved", t.sock, networkId)
  /\ UNCHANGED <<readyState, nextId>>

\* A frame handler that only answers the sender with one ERROR frame.
ReplyError(s, code) ==
  /\ out' = emitError(readyState, <<>>, s, code)
  /\ UNCHANGED <<readyState, state, authTasks, regVars, nextId>>

\* handleMessage: the frame is not JSON.
RecvInvalidJson(s) ==
  /\ readyState[s] = "open"
  /\ last' = Last("INVALID_JSON", s, Null)
  /\ ReplyError(s, WS_INVALID_MESSAGE)

\* handleMessage: the frame is valid JSON but no object with an event name
\* (value: "null", "number", or "noEvent" for an object without event).
\* The destructuring const { event, data } = message stands outside the try
\* block.  Of a number or of an object without the field it yields an
\* undefined event, which is routed like any unknown event.  Of null it throws
\* a TypeError out of the 'message' listener: an uncaught exception, for which
\* main.ts calls process.exit(1).  The exit ends every connection at once,
\* without any 'close' handler, and with it the registries and the suspended
\* handlers: every socket is "exited" and nothing can happen any more.
RecvJsonValue(s, value) ==
  /\ readyState[s] = "open"
  /\ last' = Last("JSON_VALUE", s, value)
  /\ IF value = "null"
     THEN /\ readyState' = [j \in Socks |-> "exited"]
          /\ out' = <<Frame(s, "process.exit()", [NoData EXCEPT !.ref = 1])>>
          /\ authTasks' = {}
          /\ UNCHANGED <<state, regVars, nextId>>
     ELSE ReplyError(s, IF state[s].isAuthenticated THEN WS_INVALID_MESSAGE
                                                   ELSE WS_NOT_AUTHENTICATED)

\* handleMessage: any event but AUTH on a socket that is not authenticated.
RecvNotAuthenticated(s, event) ==
  /\ readyState[s] = "open"
  /\ Route(s, event) = "notAuthenticated"
  /\ last' = Last(event, s, Null)
  /\ ReplyError(s, WS_NOT_AUTHENTICATED)

\* handleMessage: the default branch of the switch.
RecvUnknown(s) ==
  /\ readyState[s] = "open"
  /\ Route(s, "UNKNOWN") = "unknown"
  /\ last' = Last("UNKNOWN", s, Null)
  /\ ReplyError(s, WS_INVALID_MESSAGE)

\* requireRegistered fails in one of the four handlers that call it.
RecvNotRegistered(s, event) ==
  /\ readyState[s] = "open"
  /\ Route(s, event) \in {"handleDiscoverPeers", "handleConnectionRequest",
                           "handleConnectionResponse", "handleSendMessage"}
  /\ ~requireRegistered(s)
  /\ last' = Last(event, s, Null)
  /\ ReplyError(s, PEER_NOT_REGISTERED)

\* handlePeerRegister.
RecvPeerRegister(s) ==
  /\ readyState[s] = "open"
  /\ Route(s, "PEER_REGISTER") = "handlePeerRegister"
  /\ LET userId == state[s].user
         W == registerPeer(Regs, userId, s, state[s].networkId)
         f1 == emit(readyState, <<>>, s, "PEER_REGISTERED",
                    [NoData EXCEPT !.about = userId, !.status = W.byUser[userId].status])
     IN /\ SetRegs(W)
        /\ out' = broadcastPeerStatus(W, readyState, f1, userId, "online")
  /\ state' = [state EXCEPT ![s].isRegistered = TRUE]
  /\ last' = Last("PEER_REGISTER", s, Null)
  /\ UNCHANGED <<readyState, authTasks, nextId>>

\* The peer list handleDiscoverPeers sends to socket s.
discoverList(W, s) ==
  IF state[s].networkId = Null THEN {}
  ELSE getOnlinePeersInNetwork(W, state[s].networkId) \ {state[s].user}

\* handleDiscoverPeers.
RecvDiscoverPeers(s) ==
  /\ readyState[s] = "open"
  /\ Route(s, "DISCOVER_PEERS") = "handleDiscoverPeers"
  /\ requireRegistered(s)
  /\ out' = emit(readyState, <<>>, s, "PEERS_LIST",
                 [NoData EXCEPT !.peers = discoverList(Regs, s)])
  /\ last' = Last("DISCOVER_PEERS", s, Null)
  /\ UNCHANGED <<readyState, state, authTasks, regVars, nextId>>

\* The same-network test of handleConnectionRequest: TRUE when the request
\* is let through.
sameNetwork(fromNetworkId, targetNetworkId) == fromNetworkId = targetNetworkId

\* The error handleConnectionRequest answers with, Null when it goes through.
connectionRequestError(W, s, toUserId) ==
  IF toUserId = Null THEN VALIDATION_FAILED
  ELSE IF W.byUser[toUserId] = NoPeer THEN PEER_NOT_FOUND
  ELSE IF ~sameNetwork(state[s].networkId, W.byUser[toUserId].networkId)
       THEN PEER_NOT_IN_SAME_NETWORK
  ELSE IF ~getSocket(W, W.byUser[toUserId].socketId) THEN MESSAGE_TARGET_OFFLINE
  ELSE Null

\* handleConnectionRequest (toUserId: data.targetId, Null when missing).
RecvConnectionRequest(s, toUserId) ==
  /\ readyState[s] = "open"
  /\ Route(s, "CONNECTION_REQUEST") = "handleConnectionRequest"
  /\ requireRegistered(s)
  /\ last' = Last("CONNECTION_REQUEST", s, toUserId)
  /\ LET err == connectionRequestError(Regs, s, toUserId)
         requestId == nextId.request
     IN IF err # Null
        THEN /\ out' = emitError(readyState, <<>>, s, err)
             /\ UNCHANGED <<regVars, nextId>>
        ELSE /\ requestId \in ReqIds
             /\ SetRegs(createConnectionRequest(Regs, requestId, state[s].user, toUserId))
             /\ nextId' = [nextId EXCEPT !.request = requestId + 1]
             /\ out' = emit(readyState, <<>>, peersByUserId[toUserId].socketId,
                            "CONNECTION_REQUEST_RECEIVED",
                            [NoData EXCEPT !.ref = requestId, !.about = state[s].user])
  /\ UNCHANGED <<readyState, state, authTasks>>

\* The age of the entry the request registry holds under requestId when a
\* handler looks it up (-1: it holds none).
storedAge(W, requestId) ==
  IF requestId \in ReqIds /\ W.requests[requestId] # NoRequest
  THEN W.requests[requestId].age
  ELSE -1

isResponseTargetAnyone(request, responderId) == TRUE

\* The test of handleConnectionResponse that the responder is the target.
isResponseTarget(request, responderId) == request.toUserId = responderId

\* handleConnectionResponse (requestId: 0 when missing; accepted: "undefined"
\* when missing).
RecvConnectionResponse(s, requestId, accepted) ==
  /\ readyState[s] = "open"
  /\ Route(s, "CONNECTION_RESPONSE") = "handleConnectionResponse"
  /\ requireRegistered(s)
  /\ last' = Last("CONNECTION_RESPONSE", s,
                  <<requestId, accepted, storedAge(Regs, requestId)>>)
  /\ LET responderId == state[s].user
         request == IF requestId = 0 THEN NoRequest
                    ELSE getConnectionRequest(Regs, requestId)
         W0 == IF requestId = 0 THEN Regs ELSE getConnectionRequestEffect(Regs, requestId)
         W1 == removeConnectionRequest(W0, requestId)
     IN IF requestId = 0 \/ accepted = "undefined"
        THEN /\ out' = emitError(readyState, <<>>, s, VALIDATION_FAILED)
             /\ UNCHANGED <<regVars, nextId>>
        ELSE IF request = NoRequest
        THEN /\ out' = emitError(readyState, <<>>, s, CONNECTION_REQUEST_NOT_FOUND)
             /\ SetRegs(W0)
             /\ UNCHANGED nextId
        ELSE IF ~isResponseTarget(request, responderId)
        THEN /\ out' = emitError(readyState, <<>>, s, CONNECTION_REQUEST_UNAUTHORIZED)
             /\ SetRegs(W0)
             /\ UNCHANGED nextId
        ELSE IF W1.byUser[request.fromUserId] = NoPeer
        THEN /\ out' = emitError(readyState, <<>>, s, PEER_NOT_FOUND)
             /\ SetRegs(W1)
             /\ UNCHANGED nextId
        ELSE IF ~getSocket(W1, W1.byUser[request.fromUserId].socketId)
        THEN /\ out' = emitError(readyState, <<>>, s, MESSAGE_TARGET_OFFLINE)
             /\ SetRegs(W1)
             /\ UNCHANGED nextId
        ELSE IF accepted = "true"
        THEN LET sessionId == nextId.session
                 requesterSocket == W1.byUser[request.fromUserId].socketId
                 f1 == emit(readyState, <<>>, requesterSocket, "CONNECTION_ACCEPTED",
                            [NoData EXCEPT !.ref = sessionId, !.about = responderId])
             IN /\ sessionId \in SesIds
                /\ SetRegs(createSessionForPeers(W1, sessionId, request.fromUserId,
                                                 requesterSocket, responderId, s))
                /\ nextId' = [nextId EXCEPT !.session = sessionId + 1]
                /\ out' = emit(readyState, f1, s, "SESSION_CREATED",
                               [NoData EXCEPT !.ref = sessionId,
                                              !.about = request.fromUserId])
        ELSE /\ out' = emit(readyState, <<>>, W1.byUser[request.fromUserId].socketId,
                            "CONNECTION_REJECTED",
                            [NoData EXCEPT !.ref = requestId, !.about = responderId])
             /\ SetRegs(W1)
             /\ UNCHANGED nextId
  /\ UNCHANGED <<readyState, state, authTasks>>

RECURSIVE routeFrom(_, _, _, _, _, _)
routeFrom(W, ready, frames, sessionId, senderId, i) ==
  IF i > Len(UserOrder) THEN frames
  ELSE LET u == UserOrder[i]
           parts == W.sessions[sessionId].participants
           f1 == IF u \in DOMAIN parts /\ u # senderId /\ getSocket(W, parts[u])
                 THEN emit(ready, frames, parts[u], "MESSAGE_RECEIVED",
                           [NoData EXCEPT !.ref = sessionId, !.about = senderId])
                 ELSE frames
       IN routeFrom(W, ready, f1, sessionId, senderId, i + 1)

\* handleSendMessage (sessionId: 0 when missing).
RecvSendMessage(s, sessionId) ==
  /\ readyState[s] = "open"
  /\ Route(s, "SEND_MESSAGE") = "handleSendMessage"
  /\ requireRegistered(s)
  /\ last' = Last("SEND_MESSAGE", s, sessionId)
  /\ out' = IF sessionId = 0 THEN emitError(readyState, <<>>, s, VALIDATION_FAILED)
            ELSE IF getSession(Regs, sessionId) = NoSession
            THEN emitError(readyState, <<>>, s, SESSION_NOT_FOUND)
            ELSE IF ~isParticipant(Regs, sessionId, state[s].user)
            THEN emitError(readyState, <<>>, s, SESSION_NOT_PARTICIPANT)
            ELSE routeFrom(Regs, readyState, <<>>, sessionId, state[s].user, 1)
  /\ UNCHANGED <<readyState, state, authTasks, regVars, nextId>>

\* handlePing.
RecvPing(s) ==
  /\ readyState[s] = "open"
  /\ Route(s, "PING") = "handlePing"
  /\ state' = [state EXCEPT ![s].isAlive = TRUE]
  /\ out' = emit(readyState, <<>>, s, "PONG", NoData)
  /\ last' = Last("PING", s, Null)
  /\ UNCHANGED <<readyState, authTasks, regVars, nextId>>

\* The client closes the socket, or the transport fails: the 'close' event is
\* still to come.
ClientClose(s) ==
  /\ readyState[s] = "open"
  /\ readyState' = closeReady(readyState, s)
  /\ out' = <<>>
  /\ last' = Last("clientClose", s, Null)
  /\ UNCHANGED <<state, authTasks, regVars, nextId>>

\* The registries handleDisconnect leaves for a socket in state st.
disconnectRegs(W, st) ==
  IF st.user # Null /\ st.isRegistered
  THEN unregisterSocket(
         unregisterPeerByUserId(handleUserDisconnect(W, st.user), st.user),
         st.socketId)
  ELSE W

\* The frames one run of handleDisconnect sends for a socket in state st, W
\* being the registries it has left: the handler reads socket.state and
\* never writes it, so a second run for the same socket finds the same st.
disconnectFrames(W, ready, st) ==
  IF st.user # Null /\ st.isRegistered
  THEN broadcastPeerStatus(W, ready, <<>>, st.user, "offline")
  ELSE <<>>

\* The socket's 'close' event: handleDisconnect.  After it nothing reads the
\* socket's state (no frame arrives, the auth timer tests readyState, a
\* suspended handleAuth only writes), so the model forgets the fields.
HandleDisconnect(s) ==
  /\ readyState[s] = "closing"
  /\ readyState' = [readyState EXCEPT ![s] = "closed"]
  /\ state' = [state EXCEPT ![s] = NewSocketState(s)]
  /\ LET st == state[s]
         W == disconnectRegs(Regs, st)
     IN /\ SetRegs(W)
        /\ out' = IF st.user # Null /\ st.isRegistered
                  THEN broadcastPeerStatus(W, readyState', <<>>, st.user, "offline")
                  ELSE <<>>
  /\ last' = Last("disconnect", s, Null)
  /\ UNCHANGED <<authTasks, nextId>>

\* Time passes: every pending request is REQUEST_EXPIRY_MS older (an age of
\* exactly REQUEST_EXPIRY_MS is the boundary of the expiry test).  Ages stop
\* past the expiry, where a request is expired for good.
Tick ==
  /\ \E r \in ReqIds : connectionRequests[r] # NoRequest
                       /\ connectionRequests[r].age <= REQUEST_EXPIRY_MS
  /\ connectionRequests' =
       [r \in ReqIds |->
          IF connectionRequests[r] # NoRequest
             /\ connectionRequests[r].age <= REQUEST_EXPIRY_MS
          THEN [connectionRequests[r] EXCEPT !.age = @ + REQUEST_EXPIRY_MS]
          ELSE connectionRequests[r]]
  /\ out' = <<>>
  /\ last' = Last("tick", 0, Null)
  /\ UNCHANGED <<readyState, state, authTasks, peersByUserId,
                 socketIdToUserId, sockets, sessions, nextId>>

\* The periodic sweep of SessionService's constructor.
CleanupExpiredRequests ==
  /\ \E r \in ReqIds : connectionRequests[r] # NoRequest
  /\ SetRegs(cleanupExpiredRequests(Regs))
  /\ out' = <<>>
  /\ last' = Last("cleanup", 0, Null)
  /\ UNCHANGED <<readyState, state, authTasks, nextId>>

\* ---------------------------------------------------------------- heartbeat
\* The 'pong' listener of handleConnection: a pong frame arrives on socket s
\* (a client may send one unasked).
Pong(s) ==
  /\ readyState[s] = "open"
  /\ state' = [state EXCEPT ![s].isAlive = TRUE]
  /\ out' = <<>>
  /\ last' = Last("pong", s, Null)
  /\ UNCHANGED <<readyState, authTasks, regVars, nextId>>

\* server.clients: the sockets whose 'close' event has not run.
clients == {s \in Socks : readyState[s] \in {"open", "closing"}}

heartbeatTerminatesNone(s) == FALSE

\* TRUE when checkHeartbeats, running now, terminates client s.
heartbeatTerminates(s) == ~state[s].isAlive

\* The calls checkHeartbeats makes on the clients from the i-th on, in the
\* order of server.clients: terminate() or ping(), recorded among the frames
\* when the socket is open (on a closing socket neither does anything).
RECURSIVE sweepFrom(_, _)
sweepFrom(frames, i) ==
  IF i > MaxSockets THEN frames
  ELSE LET f1 == IF i \notin clients \/ readyState[i] # "open" THEN frames
                 ELSE IF heartbeatTerminates(i)
                 THEN Append(frames, Frame(i, "terminate()", NoData))
                 ELSE Append(frames, Frame(i, "ping()", NoData))
       IN sweepFrom(f1, i + 1)

\* The heartbeat interval fires: checkHeartbeats.
CheckHeartbeats ==
  /\ clients # {}
  /\ readyState' = [s \in Socks |->
                      IF s \in clients /\ heartbeatTerminates(s) /\ readyState[s] = "open"
                      THEN "closing" ELSE readyState[s]]
  /\ state' = [s \in Socks |->
                 IF s \in clients /\ ~heartbeatTerminates(s)
                 THEN [state[s] EXCEPT !.isAlive = FALSE] ELSE state[s]]
  /\ out' = sweepFrom(<<>>, 1)
  /\ last' = Last("checkHeartbeats", 0, Null)
  /\ UNCHANGED <<authTasks, regVars, nextId>>

\* ------------------------------------------- the peer registry on its own
\* PeerRegistryService called directly, in any order and with any arguments:
\* what its methods guarantee by themselves, whatever the gateway does.
PeerSessionIds == 1..MaxPeerSessionIds

CallRegisterPeer(userId, socketId, networkId) ==
  /\ SetRegs(registerPeer(Regs, userId, socketId, networkId))
  /\ out' = <<>>
  /\ last' = Last("registerPeer", socketId, <<userId, isPeerRegistered(Regs, userId)>>)
  /\ UNCHANGED <<readyState, state, authTasks, nextId>>

CallUnregisterPeerByUserId(userId) ==
  /\ SetRegs(unregisterPeerByUserId(Regs, userId))
  /\ out' = <<>>
  /\ last' = Last("unregisterPeerByUserId", 0, <<userId, isPeerRegistered(Regs, userId)>>)
  /\ UNCHANGED <<readyState, state, authTasks, nextId>>

CallUnregisterPeerBySocketId(socketId) ==
  /\ SetRegs(unregisterPeerBySocketId(Regs, socketId))
  /\ out' = <<>>
  /\ last' = Last("unregisterPeerBySocketId", socketId, Null)
  /\ UNCHANGED <<readyState, state, authTasks, nextId>>

CallAddSessionToPeer(userId, sessionId) ==
  /\ isPeerRegistered(Regs, userId)
  /\ SetRegs(addSessionToPeer(Regs, userId, sessionId))
  /\ out' = <<>>
  /\ last' = Last("addSessionToPeer", 0,
                  <<userId, sessionId, Contains(peersByUserId[userId].sessionIds, sessionId)>>)
  /\ UNCHANGED <<readyState, state, authTasks, nextId>>

\* ------------------------------------------------------- next-state relation
\* Connections come and go: accept, the auth timer, AUTH with any token, the
\* resolver's answer, PEER_REGISTER, the close and its 'close' event.
Lifecycle ==
  \/ \E s \in Socks : Accept(s)
  \/ \E s \in Socks : AuthTimeout(s)
  \/ \E s \in Socks, token \in Tokens \cup {NoToken} : RecvAuth(s, token)
  \/ \E t \in authTasks, n \in NetOrNull : AuthResolved(t, n)
  \/ \E s \in Socks : RecvPeerRegister(s)
  \/ \E s \in Socks : ClientClose(s)
  \/ \E s \in Socks : HandleDisconnect(s)

Next == Lifecycle

Spec == Init /\ [][Next]_vars

\* The lifecycle with one handleAuth in flight at a time.
LifecycleSerial ==
  \/ \E s \in Socks : Accept(s)
  \/ \E s \in Socks : AuthTimeout(s)
  \/ \E s \in Socks, token \in Tokens \cup {NoToken} :
       authTasks = {} /\ RecvAuth(s, token)
  \/ \E t \in authTasks, n \in NetOrNull : AuthResolved(t, n)
  \/ \E s \in Socks : RecvPeerRegister(s)
  \/ \E s \in Socks : ClientClose(s)
  \/ \E s \in Socks : HandleDisconnect(s)

\* The frames that are answered without a change of any registry.
Replies ==
  \/ \E s \in Socks : RecvInvalidJson(s)
  \/ \E s \in Socks, e \in Events : RecvNotAuthenticated(s, e)
  \/ \E s \in Socks : RecvUnknown(s)
  \/ \E s \in Socks, e \in Events : RecvNotRegistered(s, e)
  \/ \E s \in Socks : RecvDiscoverPeers(s)
  \/ \E s \in Socks : RecvPing(s)

NextDispatch == LifecycleSerial \/ Replies

SpecDispatch == Init /\ [][NextDispatch]_vars

\* The auth timer of every accepted socket fires in the end.
SpecTimeout ==
  /\ Init
  /\ [][LifecycleSerial]_vars
  /\ \A s \in Socks : WF_vars(AuthTimeout(s))

\* Users who hold valid tokens and are members of network n1 or of none.
LifecycleMembers ==
  \/ \E s \in Socks : Accept(s)
  \/ \E s \in Socks, token \in Users : authTasks = {} /\ RecvAuth(s, token)
  \/ \E t \in authTasks, n \in {"n1", Null} : AuthResolved(t, n)
  \/ \E s \in Socks : RecvPeerRegister(s)
  \/ \E s \in Socks : ClientClose(s)
  \/ \E s \in Socks : HandleDisconnect(s)

NextPairing ==
  \/ LifecycleMembers
  \/ \E s \in Socks, u \in Users \cup {Null} : RecvConnectionRequest(s, u)
  \/ \E s \in Socks, r \in ReqIds \cup {0}, a \in {"true", "false", "undefined"} :
       RecvConnectionResponse(s, r, a)
  \/ \E s \in Socks, i \in SesIds \cup {0} : RecvSendMessage(s, i)

SpecPairing == Init /\ [][NextPairing]_vars

NextExpiry ==
  \/ LifecycleMembers
  \/ \E s \in Socks, u \in Users : RecvConnectionRequest(s, u)
  \/ \E s \in Socks, r \in ReqIds : RecvConnectionResponse(s, r, "true")
  \/ Tick
  \/ CleanupExpiredRequests

SpecExpiry == Init /\ [][NextExpiry]_vars

\* Every kind of frame a client can send to the dispatcher.
NextFrames ==
  \/ NextDispatch
  \/ \E s \in Socks, v \in {"null", "number", "noEvent"} : RecvJsonValue(s, v)

SpecFrames == Init /\ [][NextFrames]_vars

\* Time passes and the sweep's interval fires: a clock that advances and a
\* setInterval callback are never postponed forever.
SpecExpiryFair ==
  /\ Init
  /\ [][NextExpiry]_vars
  /\ WF_vars(Tick)
  /\ WF_vars(CleanupExpiredRequests)

\* Connections under the heartbeat supervisor: the lifecycle, the frames that
\* are answered without a change of any registry, pongs and the sweep.
NextHeartbeat ==
  \/ LifecycleMembers
  \/ \E s \in Socks : RecvInvalidJson(s)
  \/ \E s \in Socks, e \in {"PING", "UNKNOWN"} : RecvNotAuthenticated(s, e)
  \/ \E s \in Socks : RecvUnknown(s)
  \/ \E s \in Socks : RecvPing(s)
  \/ \E s \in Socks : Pong(s)
  \/ CheckHeartbeats

SpecHeartbeat == Init /\ [][NextHeartbeat]_vars

NextPeerRegistry ==
  \/ \E u \in Users, s \in Socks, n \in NetOrNull : CallRegisterPeer(u, s, n)
  \/ \E u \in Users : CallUnregisterPeerByUserId(u)
  \/ \E s \in Socks : CallUnregisterPeerBySocketId(s)
  \/ \E u \in Users, i \in PeerSessionIds : CallAddSessionToPeer(u, i)

SpecPeerRegistry == Init /\ [][NextPeerRegistry]_vars

\* ----------------------------------------------------------------- claims
\* C1: at most one live connection per user: in every reachable state at most
\* one open connection is authenticated as any given user.
C1_AtMostOneLiveConnectionPerUser ==
  \A u \in Users :
    Cardinality({s \in Socks : /\ readyState[s] = "open"
                               /\ state[s].isAuthenticated
                               /\ state[s].user = u}) <= 1

\* C2: socket-peer consistency: for every Peer p the socket registry holds
\* p.socketId, and that connection is live (its 'close' event has not run)
\* and authenticated as p.userId.
C2_SocketPeerConsistency ==
  \A u \in Users :
    peersByUserId[u] # NoPeer =>
      LET sid == peersByUserId[u].socketId
      IN /\ sid \in sockets
         /\ readyState[sid] \in {"open", "closing"}
         /\ state[sid].isAuthenticated
         /\ state[sid].user = u

\* C3: session-peer consistency: every participant of every session (of two
\* users) has a Peer, and that Peer's sessionIds contain the session's id.
C3_SessionPeerConsistency ==
  \A i \in SesIds :
    (sessions[i] # NoSession /\ Cardinality(DOMAIN sessions[i].participants) = 2) =>
      \A u \in DOMAIN sessions[i].participants :
        /\ peersByUserId[u] # NoPeer
        /\ Contains(peersByUserId[u].sessionIds, i)

\* C4: network isolation of requests: a CONNECTION_REQUEST to another user's
\* Peer, on another connection, creates a request, or delivers
\* CONNECTION_REQUEST_RECEIVED, only when requester and target have the same
\* network id and that id is not null.
C4_RequestOnlyInSameNonNullNetwork ==
  [][(/\ last'.op = "CONNECTION_REQUEST"
      /\ last'.arg \in Users
      /\ last'.arg # state[last'.sock].user
      /\ peersByUserId[last'.arg] # NoPeer
      /\ peersByUserId[last'.arg].socketId # last'.sock)
     => LET fromNetworkId == state[last'.sock].networkId
            targetNetworkId == peersByUserId[last'.arg].networkId
        IN (fromNetworkId = Null \/ fromNetworkId # targetNetworkId)
           => /\ connectionRequests' = connectionRequests
              /\ \A i \in 1..Len(out') : out'[i].event # "CONNECTION_REQUEST_RECEIVED"
    ]_vars

\* C5: pairing never crosses networks: two users who are participants of one
\* session and have Peers (each with the network id of its connection) have
\* the same network id, and it is not null.
C5_SessionsWithinOneNetwork ==
  \A i \in SesIds :
    sessions[i] # NoSession =>
      \A u, v \in DOMAIN sessions[i].participants :
        (/\ u # v
         /\ peersByUserId[u] # NoPeer
         /\ peersByUserId[v] # NoPeer
         /\ state[peersByUserId[u].socketId].networkId = peersByUserId[u].networkId
         /\ state[peersByUserId[v].socketId].networkId = peersByUserId[v].networkId)
        => /\ peersByUserId[u].networkId # Null
           /\ peersByUserId[u].networkId = peersByUserId[v].networkId

\* C6: discovery is network-scoped: the reply to DISCOVER_PEERS from a
\* registered connection with network id n is one PEERS_LIST frame, to the
\* requester, listing exactly the online Peers whose network id is n, without
\* the requester's own user; the list is empty when n is null, and no listed
\* Peer has a null network id.
C6_DiscoveryIsNetworkScoped ==
  (last.op = "DISCOVER_PEERS" /\ state[last.sock].isRegistered)
  => LET s == last.sock
         n == state[s].networkId
         expected == IF n = Null THEN {}
                     ELSE {u \in Users : /\ peersByUserId[u] # NoPeer
                                         /\ peersByUserId[u].status = "online"
                                         /\ peersByUserId[u].networkId = n
                                         /\ u # state[s].user}
     IN /\ Len(out) = 1
        /\ out[1].to = s
        /\ out[1].event = "PEERS_LIST"
        /\ out[1].peers = expected
        /\ \A u \in out[1].peers : peersByUserId[u].networkId # Null

\* A registered connection in a network has discovered, and an online Peer of
\* another network was left out of its list.
C6_Witness ==
  /\ last.op = "DISCOVER_PEERS"
  /\ state[last.sock].isRegistered
  /\ state[last.sock].networkId # Null
  /\ Len(out) = 1
  /\ out[1].event = "PEERS_LIST"
  /\ \E u \in Users : /\ u # state[last.sock].user
                      /\ peersByUserId[u] # NoPeer
                      /\ peersByUserId[u].status = "online"
                      /\ peersByUserId[u].networkId \in Nets \ {state[last.sock].networkId}
                      /\ u \notin out[1].peers

\* C7: no cross-network leakage: a frame that reveals a user (a
\* PEER_STATUS_UPDATE, a CONNECTION_REQUEST_RECEIVED, an entry of a PEERS_LIST)
\* is not delivered to a connection in a network other than that user's Peer's
\* network (both in a network).
C7_NoCrossNetworkLeak ==
  \A i \in 1..Len(out) :
    LET f == out[i]
        revealed == IF f.event \in {"PEER_STATUS_UPDATE", "CONNECTION_REQUEST_RECEIVED"}
                    THEN {f.about} \cap Users
                    ELSE IF f.event = "PEERS_LIST" THEN f.peers
                    ELSE {}
    IN \A u \in revealed :
         (/\ peersByUserId[u] # NoPeer
          /\ peersByUserId[u].networkId # Null
          /\ state[f.to].networkId # Null)
         => state[f.to].networkId = peersByUserId[u].networkId

\* C8: supersession: when AUTH with a valid token is handled for a user whose
\* Peer is on another, open connection, that connection is sent ERROR ERR_2005
\* and then closed with code 4002, and the prior Peer and its socket-registry
\* entry are gone.
C8_SupersessionClosesPrior ==
  [][(/\ last'.op = "AUTH"
      /\ last'.arg \in Users
      /\ peersByUserId[last'.arg] # NoPeer
      /\ peersByUserId[last'.arg].socketId # last'.sock
      /\ readyState[peersByUserId[last'.arg].socketId] = "open")
     => LET old == peersByUserId[last'.arg].socketId
        IN /\ Len(out') = 2
           /\ out'[1] = Frame(old, "ERROR", [NoData EXCEPT !.code = "ERR_2005"])
           /\ out'[2] = Frame(old, "close()", [NoData EXCEPT !.ref = 4002])
           /\ readyState'[old] = "closing"
           /\ peersByUserId'[last'.arg] = NoPeer
           /\ old \notin sockets'
    ]_vars

\* C9: auth timeout: when its timer (10 seconds) fires, a connection that is
\* open and not authenticated is sent exactly one ERROR frame, ERR_1001, and
\* is closed with code 4001, and a connection that is authenticated is left as
\* it is; every open connection in the end is authenticated or closed.
C9_AuthTimeout ==
  /\ [][last'.op = "authTimeout"
        => LET s == last'.sock
           IN /\ AUTH_TIMEOUT_MS = 10 * 1000
              /\ UNCHANGED <<state, regVars, authTasks>>
              /\ IF ~state[s].isAuthenticated /\ readyState[s] = "open"
                 THEN /\ out' = <<Frame(s, "ERROR", [NoData EXCEPT !.code = "ERR_1001"]),
                                  Frame(s, "close()", [NoData EXCEPT !.ref = 4001])>>
                      /\ readyState' = [readyState EXCEPT ![s] = "closing"]
                 ELSE /\ out' = <<>>
                      /\ readyState' = readyState
       ]_vars
  /\ \A s \in Socks :
       (readyState[s] = "open")
         ~> (state[s].isAuthenticated \/ readyState[s] \in {"closing", "closed"})

\* The timer has fired on a connection that never authenticated and closed it.
C9_Witness ==
  /\ last.op = "authTimeout"
  /\ ~state[last.sock].isAuthenticated
  /\ readyState[last.sock] = "closing"
  /\ Len(out) = 2
  /\ out[1].code = "ERR_1001"
  /\ out[2].ref = 4001

\* C10: events are authorized by connection state: on a connection that is not
\* authenticated every event but AUTH and PING is answered with one ERROR
\* frame, ERR_5005; on one that is authenticated and not registered
\* DISCOVER_PEERS, CONNECTION_REQUEST, CONNECTION_RESPONSE and SEND_MESSAGE are
\* answered with one ERROR frame, ERR_2006; in both cases no registry and no
\* connection changes and no other connection is sent a frame.
C10_EventsAuthorizedByState ==
  [][(last'.op \in Events /\ last'.sock \in Socks)
     => LET s == last'.sock
            e == last'.op
        IN /\ (e \notin {"AUTH", "PING"} /\ ~state[s].isAuthenticated)
              => /\ out' = <<Frame(s, "ERROR", [NoData EXCEPT !.code = "ERR_5005"])>>
                 /\ UNCHANGED <<regVars, readyState, state, authTasks>>
           /\ (/\ e \in {"DISCOVER_PEERS", "CONNECTION_REQUEST",
                         "CONNECTION_RESPONSE", "SEND_MESSAGE"}
               /\ state[s].isAuthenticated
               /\ ~state[s].isRegistered)
              => /\ out' = <<Frame(s, "ERROR", [NoData EXCEPT !.code = "ERR_2006"])>>
                 /\ UNCHANGED <<regVars, readyState, state, authTasks>>
    ]_vars

\* An authenticated connection that has not registered sent SEND_MESSAGE, was
\* answered ERR_2006 and is still open, while a Peer is online.
C10_Witness ==
  /\ last.op = "SEND_MESSAGE"
  /\ state[last.sock].isAuthenticated
  /\ ~state[last.sock].isRegistered
  /\ readyState[last.sock] = "open"
  /\ Len(out) = 1
  /\ out[1].code = "ERR_2006"
  /\ \E u \in Users : peersByUserId[u] # NoPeer

\* C11: PING is accepted before authentication: a PING frame on a connection
\* that has not authenticated is answered with one PONG frame, not with an
\* ERROR frame.
C11_PingAcceptedInConnected ==
  (last.op = "PING" /\ ~state[last.sock].isAuthenticated)
  => /\ Len(out) = 1
     /\ out[1].to = last.sock
     /\ out[1].event = "PONG"

\* C12: PEER_REGISTER installs a Peer for the connection's user with this
\* connection's socket id and with the network id captured for the connection
\* at AUTH: once no handleAuth is pending on a registered, open connection,
\* the Peer it installed has the connection's network id.
C12_PeerHasNetworkCapturedAtAuth ==
  \A s \in Socks :
    (/\ readyState[s] = "open"
     /\ state[s].isRegistered
     /\ \A t \in authTasks : t.sock # s
     /\ peersByUserId[state[s].user] # NoPeer
     /\ peersByUserId[state[s].user].socketId = s)
    => /\ peersByUserId[state[s].user].status = "online"
       /\ peersByUserId[state[s].user].networkId = state[s].networkId

\* C13: accepted pairing: when the target of a live request answers it with
\* accepted = true and the requester, another user, has a Peer (on another
\* connection), exactly one session is
\* created, with the requester as host and the requester and the responder as
\* its participants; its id is added to the sessionIds of both Peers, the
\* request is removed, and CONNECTION_ACCEPTED (to the requester's connection)
\* and SESSION_CREATED (to the responder) carry that session id.
C13_AcceptedPairingCreatesSession ==
  [][(/\ last'.op = "CONNECTION_RESPONSE"
      /\ last'.arg[1] \in ReqIds
      /\ last'.arg[2] = "true"
      /\ state[last'.sock].isRegistered
      /\ connectionRequests[last'.arg[1]] # NoRequest
      /\ connectionRequests[last'.arg[1]].age <= 30000
      /\ connectionRequests[last'.arg[1]].toUserId = state[last'.sock].user
      /\ connectionRequests[last'.arg[1]].fromUserId # state[last'.sock].user
      /\ peersByUserId[connectionRequests[last'.arg[1]].fromUserId] # NoPeer
      /\ peersByUserId[connectionRequests[last'.arg[1]].fromUserId].socketId
           # last'.sock)
     => LET s == last'.sock
            r == last'.arg[1]
            from == connectionRequests[r].fromUserId
            responder == state[s].user
        IN \E i \in SesIds :
             /\ sessions[i] = NoSession
             /\ sessions'[i] # NoSession
             /\ \A j \in SesIds \ {i} : sessions'[j] = sessions[j]
             /\ sessions'[i].hostUserId = from
             /\ DOMAIN sessions'[i].participants = {from, responder}
             /\ Contains(peersByUserId'[from].sessionIds, i)
             /\ peersByUserId[responder] # NoPeer
                  => Contains(peersByUserId'[responder].sessionIds, i)
             /\ connectionRequests'[r] = NoRequest
             /\ readyState[peersByUserId[from].socketId] = "open"
                  => \E k \in 1..Len(out') :
                       /\ out'[k].event = "CONNECTION_ACCEPTED"
                       /\ out'[k].to = peersByUserId[from].socketId
                       /\ out'[k].ref = i
             /\ \E k \in 1..Len(out') :
                  /\ out'[k].event = "SESSION_CREATED"
                  /\ out'[k].to = s
                  /\ out'[k].ref = i
    ]_vars

\* C14: response authorization: a CONNECTION_RESPONSE for a pending request
\* from a registered connection whose user is not the request's toUserId is
\* answered with one ERROR frame, ERR_6004, and changes nothing: the request
\* stays pending, no session is created, and no other connection is sent a
\* frame.
C14_ResponseAuthorization ==
  [][(/\ last'.op = "CONNECTION_RESPONSE"
      /\ last'.arg[1] \in ReqIds
      /\ last'.arg[2] \in {"true", "false"}
      /\ state[last'.sock].isRegistered
      /\ connectionRequests[last'.arg[1]] # NoRequest
      /\ connectionRequests[last'.arg[1]].age <= 30000
      /\ connectionRequests[last'.arg[1]].toUserId # state[last'.sock].user)
     => /\ out' = <<Frame(last'.sock, "ERROR", [NoData EXCEPT !.code = "ERR_6004"])>>
        /\ connectionRequests' = connectionRequests
        /\ sessions' = sessions
        /\ UNCHANGED <<peersByUserId, socketIdToUserId, sockets, readyState, state>>
    ]_vars

\* The requester itself has answered its own pending request to another user
\* with accepted = true and was refused.
C14_Witness ==
  /\ last.op = "CONNECTION_RESPONSE"
  /\ last.arg[2] = "true"
  /\ Len(out) = 1
  /\ out[1].code = "ERR_6004"
  /\ connectionRequests[last.arg[1]] # NoRequest
  /\ connectionRequests[last.arg[1]].fromUserId = state[last.sock].user
  /\ connectionRequests[last.arg[1]].toUserId # state[last.sock].user
  /\ peersByUserId[connectionRequests[last.arg[1]].toUserId] # NoPeer

\* C15: request TTL: getConnectionRequest returns a request only if its age is
\* at most 30 seconds and evicts it otherwise: a CONNECTION_RESPONSE for a
\* request older than that is answered with one ERROR frame, ERR_6001, evicts
\* the request, creates no session and sends nothing to the requester; one for
\* a request of 30 seconds or less is not answered with ERR_6001.
C15_RequestTTL ==
  [][(/\ last'.op = "CONNECTION_RESPONSE"
      /\ last'.arg[1] \in ReqIds
      /\ last'.arg[2] \in {"true", "false"}
      /\ state[last'.sock].isRegistered
      /\ connectionRequests[last'.arg[1]] # NoRequest)
     => LET s == last'.sock
            r == last'.arg[1]
        IN IF connectionRequests[r].age > 30000
           THEN /\ out' = <<Frame(s, "ERROR", [NoData EXCEPT !.code = "ERR_6001"])>>
                /\ connectionRequests'[r] = NoRequest
                /\ sessions' = sessions
                /\ UNCHANGED <<peersByUserId, socketIdToUserId, sockets, readyState, state>>
           ELSE \A k \in 1..Len(out') : out'[k].code # "ERR_6001"
    ]_vars

\* The target of a request has answered it after the TTL and was told the
\* request does not exist, while the requester is still registered.
C15_Witness ==
  /\ last.op = "CONNECTION_RESPONSE"
  /\ last.arg[3] > 30000
  /\ Len(out) = 1
  /\ out[1].code = "ERR_6001"
  /\ state[last.sock].isRegistered
  /\ \E u \in Users : u # state[last.sock].user /\ peersByUserId[u] # NoPeer
  /\ \A r \in ReqIds : connectionRequests[r] = NoRequest

\* C16: message routing is confined to the session: a SEND_MESSAGE from a
\* registered connection naming an unknown session is answered with one ERROR
\* frame, ERR_3001; one from a user who is not a participant with one ERROR
\* frame, ERR_3008; one from a participant sends only MESSAGE_RECEIVED frames,
\* each to the socket of a participant of that session other than the sender,
\* and none to the sender's own socket.
C16_RoutingConfinedToSession ==
  [][(/\ last'.op = "SEND_MESSAGE"
      /\ last'.arg \in SesIds
      /\ state[last'.sock].isRegistered)
     => LET s == last'.sock
            i == last'.arg
            u == state[s].user
        IN IF sessions[i] = NoSession
           THEN out' = <<Frame(s, "ERROR", [NoData EXCEPT !.code = "ERR_3001"])>>
           ELSE IF u \notin DOMAIN sessions[i].participants
           THEN out' = <<Frame(s, "ERROR", [NoData EXCEPT !.code = "ERR_3008"])>>
           ELSE \A k \in 1..Len(out') :
                  /\ out'[k].event = "MESSAGE_RECEIVED"
                  /\ out'[k].ref = i
                  /\ out'[k].to # s
                  /\ \E v \in DOMAIN sessions[i].participants :
                       v # u /\ sessions[i].participants[v] = out'[k].to
    ]_vars

C18_SessionDestroyedWhenEitherDeparts ==
  [][(/\ last'.op = "disconnect"
      /\ state[last'.sock].isRegistered)
     => \A i \in SesIds :
          (/\ sessions[i] # NoSession
           /\ Cardinality(DOMAIN sessions[i].participants) = 2
           /\ state[last'.sock].user \in DOMAIN sessions[i].participants
           /\ sessions[i].participants[state[last'.sock].user] = last'.sock)
          => sessions'[i] = NoSession
    ]_vars

\* C19: every session in the session registry has exactly two participants.
C19_ExactlyTwoParticipants ==
  \A i \in SesIds :
    sessions[i] # NoSession => Cardinality(DOMAIN sessions[i].participants) = 2

\* C20: disconnect cleanup: once handleDisconnect has run for a registered
\* connection of user u, no Peer exists for u, the socket registry has no
\* entry for that connection's socket id, no connection request has u as its
\* fromUserId or toUserId, and a PEER_STATUS_UPDATE with status offline about
\* u has been sent to every remaining online Peer whose connection is open.
C20_DisconnectCleanup ==
  [][(/\ last'.op = "disconnect"
      /\ state[last'.sock].isRegistered)
     => LET s == last'.sock
            u == state[s].user
        IN /\ peersByUserId'[u] = NoPeer
           /\ s \notin sockets'
           /\ \A r \in ReqIds :
                connectionRequests'[r] # NoRequest
                => /\ connectionRequests'[r].fromUserId # u
                   /\ connectionRequests'[r].toUserId # u
           /\ \A v \in Users :
                (/\ v # u
                 /\ peersByUserId'[v] # NoPeer
                 /\ peersByUserId'[v].status = "online"
                 /\ readyState'[peersByUserId'[v].socketId] = "open"
                 /\ state'[peersByUserId'[v].socketId].user = v
                 /\ state'[peersByUserId'[v].socketId].isRegistered)
                => \E k \in 1..Len(out') :
                     /\ out'[k].to = peersByUserId'[v].socketId
                     /\ out'[k].event = "PEER_STATUS_UPDATE"
                     /\ out'[k].about = u
                     /\ out'[k].status = "offline"
    ]_vars

\* C21: a failed AUTH is fatal and typed: an AUTH frame whose token the
\* verifier rejects is answered with AUTH_FAILED, with code ERR_1003 when the
\* token is expired and ERR_1002 when it is otherwise invalid, then the
\* connection is closed with code 4001; no registry changes and no other
\* connection is affected.
C21_FailedAuthIsFatalAndTyped ==
  [][(/\ last'.op = "AUTH"
      /\ last'.arg \in {"invalid", "expired"})
     => LET s == last'.sock
        IN /\ out' = <<Frame(s, "AUTH_FAILED",
                             [NoData EXCEPT !.code = IF last'.arg = "expired"
                                                     THEN "ERR_1003"
                                                     ELSE "ERR_1002"]),
                       Frame(s, "close()", [NoData EXCEPT !.ref = 4001])>>
           /\ readyState'[s] = "closing"
           /\ \A j \in Socks : j # s => readyState'[j] = readyState[j]
           /\ UNCHANGED <<peersByUserId, socketIdToUserId, sockets, sessions,
                          connectionRequests>>
    ]_vars

\* C22: malformed input is not fatal: a frame that is not JSON, and a frame
\* with an unknown event name received in any connection state, is answered
\* with one ERROR frame, ERR_5003, changes no registry and leaves the
\* connection open.
C22_MalformedInputIsNotFatal ==
  [][(last'.op \in {"INVALID_JSON", "UNKNOWN"})
     => /\ out' = <<Frame(last'.sock, "ERROR", [NoData EXCEPT !.code = "ERR_5003"])>>
        /\ readyState' = readyState
        /\ UNCHANGED <<peersByUserId, socketIdToUserId, sockets, sessions,
                       connectionRequests>>
    ]_vars

\* C23: a late AUTH is a no-op: when handleAuth resumes after the membership
\* resolution for a connection that is no longer open, it supersedes no other
\* connection, removes no Peer, adds no socket-registry entry and emits no
\* frame.
C23_LateAuthIsNoOp ==
  [][(/\ last'.op = "authResolved"
      /\ readyState[last'.sock] # "open")
     => /\ out' = <<>>
        /\ readyState' = readyState
        /\ peersByUserId' = peersByUserId
        /\ socketIdToUserId' = socketIdToUserId
        /\ sockets' = sockets
    ]_vars

\* C24: network immutability: once a connection's networkId has been set from
\* the membership resolver it never changes while the connection lives, and
\* the networkId of the Peer registered from an open connection equals the
\* connection's networkId once no membership resolution is pending for it.
C24_NetworkImmutable ==
  [][\A s \in Socks :
       /\ (/\ readyState[s] = "open"
           /\ readyState'[s] = "open"
           /\ state[s].isAuthenticated
           /\ \A t \in authTasks : t.sock # s
           /\ last'.op # "AUTH")
          => state'[s].networkId = state[s].networkId
       /\ (/\ readyState'[s] = "open"
           /\ state'[s].isRegistered
           /\ \A t \in authTasks' : t.sock # s
           /\ peersByUserId'[state'[s].user] # NoPeer
           /\ peersByUserId'[state'[s].user].socketId = s)
          => peersByUserId'[state'[s].user].networkId = state'[s].networkId
    ]_vars

\* C25 as stated: at each sweep an open connection whose alive flag is false
\* is terminated, otherwise its flag is cleared and it is pinged; and only a
\* pong sets the flag again, so that a connection from which no pong is
\* observed across two consecutive sweeps is terminated.
C25_NoPongMeansTerminated ==
  [][\A s \in Socks :
       /\ (last'.op = "checkHeartbeats" /\ readyState[s] = "open")
          => IF ~state[s].isAlive
             THEN /\ readyState'[s] = "closing"
                  /\ \E k \in 1..Len(out') : out'[k] = Frame(s, "terminate()", NoData)
             ELSE /\ readyState'[s] = "open"
                  /\ ~state'[s].isAlive
                  /\ \E k \in 1..Len(out') : out'[k] = Frame(s, "ping()", NoData)
       /\ (readyState[s] = "open" /\ ~state[s].isAlive /\ state'[s].isAlive)
          => (last'.op = "pong" /\ last'.sock = s)
       /\ (last'.op = "pong" /\ last'.sock = s) => state'[s].isAlive
    ]_vars

\* C25: heartbeat liveness: at each sweep an open connection whose alive flag
\* is false is terminated, otherwise its flag is cleared and it is pinged;
\* only a pong or a PING frame handled on the connection sets the flag again,
\* so that a connection from which neither is observed across two consecutive
\* sweeps is terminated, while one that answers every ping with a pong is
\* never terminated by the sweep.
C25_HeartbeatLiveness ==
  [][\A s \in Socks :
       /\ (last'.op = "checkHeartbeats" /\ readyState[s] = "open")
          => IF ~state[s].isAlive
             THEN /\ readyState'[s] = "closing"
                  /\ \E k \in 1..Len(out') : out'[k] = Frame(s, "terminate()", NoData)
             ELSE /\ readyState'[s] = "open"
                  /\ ~state'[s].isAlive
                  /\ \E k \in 1..Len(out') : out'[k] = Frame(s, "ping()", NoData)
       /\ (readyState[s] = "open" /\ ~state[s].isAlive /\ state'[s].isAlive)
          => (last'.op \in {"pong", "PING"} /\ last'.sock = s)
       /\ (last'.op = "pong" /\ last'.sock = s) => state'[s].isAlive
    ]_vars

\* A sweep has terminated one connection, silent since the sweep before, and
\* pinged another, which had answered.
C25_Witness ==
  /\ last.op = "checkHeartbeats"
  /\ \E s, j \in Socks :
       /\ s # j
       /\ readyState[s] = "closing"
       /\ readyState[j] = "open"
       /\ ~state[j].isAlive
       /\ state[j].isRegistered
       /\ \E k \in 1..Len(out) : out[k] = Frame(s, "terminate()", NoData)
       /\ \E k \in 1..Len(out) : out[k] = Frame(j, "ping()", NoData)

\* C26: any application frame received on a connection, in any connection
\* state, sets its alive flag: after the handling of a frame that leaves the
\* connection open, the connection's isAlive is true (so the next sweep does
\* not terminate it).
C26_AnyFrameSetsAlive ==
  [][(/\ last'.op \in Events \cup {"INVALID_JSON"}
      /\ readyState'[last'.sock] = "open")
     => state'[last'.sock].isAlive
    ]_vars

\* C27: the peer registry's two mappings are mutually inverse: after any
\* sequence of registerPeer, unregisterPeerByUserId and
\* unregisterPeerBySocketId calls, socket id s maps to user u in
\* socketIdToUserId if and only if peersByUserId holds a Peer for u whose
\* socketId is s.
C27_MappingsMutuallyInverse ==
  \A s \in Socks, u \in Users :
    (socketIdToUserId[s] = u)
    <=> (peersByUserId[u] # NoPeer /\ peersByUserId[u].socketId = s)

\* C28 as stated: for every peer-registry state and every user u,
\* registerPeer(u, ...) followed by unregisterPeerByUserId(u) leaves both
\* mappings as they were before the registerPeer.
C28_RegisterUnregisterRoundTripAnyState ==
  \A u \in Users, s \in Socks, n \in NetOrNull :
    LET W == unregisterPeerByUserId(registerPeer(Regs, u, s, n), u)
    IN W.byUser = peersByUserId /\ W.bySock = socketIdToUserId

\* C28: register/unregister round trip: for every peer-registry state in
\* which user u has no Peer and socket id s is mapped to no user,
\* registerPeer(u, ..., s) followed by unregisterPeerByUserId(u) leaves both
\* mappings as they were before the registerPeer.
C28_RegisterUnregisterRoundTrip ==
  \A u \in Users, s \in Socks, n \in NetOrNull :
    (peersByUserId[u] = NoPeer /\ socketIdToUserId[s] = Null)
    => LET W == unregisterPeerByUserId(registerPeer(Regs, u, s, n), u)
       IN W.byUser = peersByUserId /\ W.bySock = socketIdToUserId

\* A user who had no Peer was registered and then unregistered, and the
\* registry, which holds the other user's Peer, is as it was.
C28_Witness ==
  /\ last.op = "unregisterPeerByUserId"
  /\ last.arg[2]
  /\ peersByUserId[last.arg[1]] = NoPeer
  /\ \E v \in Users, s \in Socks :
       /\ v # last.arg[1]
       /\ peersByUserId[v] # NoPeer
       /\ socketIdToUserId[peersByUserId[v].socketId] = v
       /\ s # peersByUserId[v].socketId
       /\ socketIdToUserId[s] = Null

\* C29: addSessionToPeer is idempotent: for every Peer u and session id i,
\* applying addSessionToPeer(u, i) twice leaves the Peer's sessionIds as
\* applying it once does, with i occurring in them exactly once.
C29_AddSessionIdempotent ==
  \A u \in Users, i \in PeerSessionIds :
    peersByUserId[u] # NoPeer
    => LET once == addSessionToPeer(Regs, u, i)
           twice == addSessionToPeer(once, u, i)
           ids == twice.byUser[u].sessionIds
       IN /\ twice.byUser[u].sessionIds = once.byUser[u].sessionIds
          /\ Cardinality({k \in 1..Len(ids) : ids[k] = i}) = 1

\* addSessionToPeer has been applied to a Peer that already held the session
\* id, and the Peer holds it once, next to another id.
C29_Witness ==
  /\ last.op = "addSessionToPeer"
  /\ last.arg[3]
  /\ LET ids == peersByUserId[last.arg[1]].sessionIds
     IN /\ Len(ids) = 2
        /\ ids[1] # ids[2]
        /\ Contains(ids, last.arg[2])

\* C30: a failure of the membership resolver is not fatal: when
\* getActiveNetworkId fails or returns null for an open connection, the AUTH
\* still succeeds: the connection is authenticated with networkId null, is in
\* the socket registry, receives AUTH_SUCCESS as the only frame and is not
\* closed.
C30_ResolverFailureIsNotFatal ==
  [][(/\ last'.op = "authResolved"
      /\ last'.arg = Null
      /\ readyState[last'.sock] = "open")
     => LET s == last'.sock
        IN /\ state'[s].isAuthenticated
           /\ state'[s].networkId = Null
           /\ s \in sockets'
           /\ readyState' = readyState
           /\ \E u \in Users :
                out' = <<Frame(s, "AUTH_SUCCESS", [NoData EXCEPT !.about = u])>>
    ]_vars

\* The resolver gave no network to an open connection, which is now
\* authenticated without one and in the socket registry.
C30_Witness ==
  /\ last.op = "authResolved"
  /\ last.arg = Null
  /\ readyState[last.sock] = "open"
  /\ state[last.sock].isAuthenticated
  /\ state[last.sock].networkId = Null
  /\ last.sock \in sockets
  /\ Len(out) = 1
  /\ out[1].event = "AUTH_SUCCESS"

\* C31: rejected pairing: when the target answers a live request with
\* accepted = false, no session is created and the request is removed; if
\* the requester's Peer is present and its socket is in the socket registry
\* and open, the requester receives CONNECTION_REJECTED with the request id
\* and the responder's id as the only frame sent, so the responder receives
\* no frame.
C31_RejectedPairing ==
  [][(/\ last'.op = "CONNECTION_RESPONSE"
      /\ last'.arg[1] \in ReqIds
      /\ last'.arg[2] = "false"
      /\ state[last'.sock].isRegistered
      /\ connectionRequests[last'.arg[1]] # NoRequest
      /\ connectionRequests[last'.arg[1]].age <= REQUEST_EXPIRY_MS
      /\ connectionRequests[last'.arg[1]].toUserId = state[last'.sock].user)
     => LET s == last'.sock
            r == last'.arg[1]
            from == connectionRequests[r].fromUserId
        IN /\ sessions' = sessions
           /\ connectionRequests'[r] = NoRequest
           /\ UNCHANGED <<peersByUserId, socketIdToUserId, sockets, nextId>>
           /\ (/\ peersByUserId[from] # NoPeer
               /\ peersByUserId[from].socketId \in sockets
               /\ readyState[peersByUserId[from].socketId] = "open")
              => /\ out' = <<Frame(peersByUserId[from].socketId, "CONNECTION_REJECTED",
                                   [NoData EXCEPT !.ref = r, !.about = state[s].user])>>
                 /\ \A k \in 1..Len(out') : out'[k].to # s
    ]_vars

\* C32: every connection request is destroyed in the end: by a response from
\* its target, by expiry (at a lookup or at the sweep), or at the disconnect
\* of either endpoint; no request stays in the request registry forever.
C32_RequestEventuallyDestroyed ==
  \A r \in ReqIds :
    (connectionRequests[r] # NoRequest) ~> (connectionRequests[r] = NoRequest)

\* The sweep has evicted a request nobody answered, both endpoints still
\* registered.
C32_Witness ==
  /\ last.op = "cleanup"
  /\ nextId.request > 1
  /\ \A r \in ReqIds : connectionRequests[r] = NoRequest
  /\ \A i \in SesIds : sessions[i] = NoSession
  /\ \A u \in Users : peersByUserId[u] # NoPeer /\ readyState[peersByUserId[u].socketId] = "open"

\* C33: the disconnect handler is idempotent: when handleDisconnect runs a
\* second time for the same connection, the second run changes no registry
\* and sends no further PEER_STATUS_UPDATE.
C33_DisconnectIdempotent ==
  \A s \in Socks :
    readyState[s] = "closing"
    => LET st == state[s]
           ready == [readyState EXCEPT ![s] = "closed"]
           once == disconnectRegs(Regs, st)
           twice == disconnectRegs(once, st)
       IN /\ twice = once
          /\ disconnectFrames(twice, ready, st) = <<>>

\* C34: every CONNECTION_REQUEST from a registered connection has exactly one
\* of two outcomes: one ERROR frame to the requester (ERR_9003, ERR_2001,
\* ERR_2007 or ERR_4003) with no request created and nothing sent to the
\* target; or exactly one request created and exactly one
\* CONNECTION_REQUEST_RECEIVED delivered to the connection of the target's
\* Peer.
C34_RequestOutcomes ==
  [][(/\ last'.op = "CONNECTION_REQUEST"
      /\ state[last'.sock].isRegistered)
     => LET s == last'.sock
            created == {r \in ReqIds : connectionRequests[r] = NoRequest
                                       /\ connectionRequests'[r] # NoRequest}
        IN \/ /\ \E c \in {"ERR_9003", "ERR_2001", "ERR_2007", "ERR_4003"} :
                   out' = <<Frame(s, "ERROR", [NoData EXCEPT !.code = c])>>
              /\ connectionRequests' = connectionRequests
           \/ /\ Cardinality(created) = 1
              /\ \A r \in ReqIds \ created : connectionRequests'[r] = connectionRequests[r]
              /\ last'.arg \in Users
              /\ peersByUserId[last'.arg] # NoPeer
              /\ \E r \in created :
                   out' = <<Frame(peersByUserId[last'.arg].socketId,
                                  "CONNECTION_REQUEST_RECEIVED",
                                  [NoData EXCEPT !.ref = r, !.about = state[s].user])>>
    ]_vars

\* C35: the socket registry holds only live connections: every socket id in it
\* belongs to a connection whose 'close' event has not run, so that once an
\* authenticated connection has closed, registered as a Peer or not, its
\* entry is gone.
C35_SocketRegistryHoldsLiveConnections ==
  \A s \in sockets : readyState[s] \in {"open", "closing"}

\* C36: every open connection in registered state has a Peer whose userId is
\* the connection's user and whose socketId is the connection's own socket
\* id.
C36_RegisteredConnectionHasItsPeer ==
  \A s \in Socks :
    (readyState[s] = "open" /\ state[s].isRegistered)
    => /\ peersByUserId[state[s].user] # NoPeer
       /\ peersByUserId[state[s].user].socketId = s

\* C37: a second AUTH frame on a connection that is already authenticated
\* never changes the user the connection is bound to, never closes that
\* connection and never removes its own Peer or its socket-registry entry.
C37_SecondAuthChangesNothing ==
  [][(/\ last'.op = "AUTH"
      /\ state[last'.sock].isAuthenticated)
     => LET s == last'.sock
            u == state[s].user
        IN /\ state'[s].user = u
           /\ readyState'[s] = readyState[s]
           /\ (peersByUserId[u] # NoPeer /\ peersByUserId[u].socketId = s)
              => peersByUserId'[u] = peersByUserId[u]
           /\ (s \in sockets) => (s \in sockets')
    ]_vars

\* C38: the dispatcher is total: for every text frame, valid JSON that is not
\* an object and objects without an event field included, handleMessage
\* answers with a frame or ignores it, without raising an exception: no
\* frame of one client ends the process that serves the other connections.
C38_DispatcherIsTotal ==
  [][\A j \in Socks :
       (readyState[j] \in {"open", "closing"}) => readyState'[j] # "exited"
    ]_vars

\* C39: each request id yields at most one outcome: a CONNECTION_RESPONSE
\* naming a request id that is no longer in the request registry (it has been
\* answered, or has expired, or an endpoint has disconnected) is answered with
\* one ERROR frame, ERR_6001, creates no session and sends neither
\* CONNECTION_ACCEPTED nor CONNECTION_REJECTED; and a response that creates a
\* session or sends CONNECTION_ACCEPTED or CONNECTION_REJECTED removes the
\* request, so that at most one session and one such frame exist per request
\* id.
C39_AtMostOneOutcomePerRequest ==
  [][(/\ last'.op = "CONNECTION_RESPONSE"
      /\ last'.arg[1] \in ReqIds
      /\ last'.arg[2] \in {"true", "false"}
      /\ state[last'.sock].isRegistered)
     => LET s == last'.sock
            r == last'.arg[1]
            outcome == \/ sessions' # sessions
                       \/ \E k \in 1..Len(out') :
                            out'[k].event \in {"CONNECTION_ACCEPTED", "CONNECTION_REJECTED",
                                               "SESSION_CREATED"}
        IN /\ (connectionRequests[r] = NoRequest)
              => /\ out' = <<Frame(s, "ERROR", [NoData EXCEPT !.code = "ERR_6001"])>>
                 /\ ~outcome
                 /\ UNCHANGED <<peersByUserId, socketIdToUserId, sockets, sessions,
                                connectionRequests, nextId>>
           /\ outcome
              => /\ connectionRequests[r] # NoRequest
                 /\ connectionRequests'[r] = NoRequest
                 /\ Cardinality({i \in SesIds : sessions[i] = NoSession
                                                /\ sessions'[i] # NoSession}) <= 1
                 /\ Cardinality({k \in 1..Len(out') :
                                   out'[k].event \in {"CONNECTION_ACCEPTED",
                                                      "CONNECTION_REJECTED"}}) <= 1
    ]_vars

\* A request that was accepted, its session in place, has been answered a
\* second time, and the second answer was told the request does not exist.
C39_Witness ==
  /\ last.op = "CONNECTION_RESPONSE"
  /\ last.arg[1] \in ReqIds
  /\ last.arg[1] < nextId.request
  /\ last.arg[3] = -1
  /\ out = <<Frame(last.sock, "ERROR", [NoData EXCEPT !.code = "ERR_6001"])>>
  /\ \E i \in SesIds :
       /\ sessions[i] # NoSession
       /\ Cardinality(DOMAIN sessions[i].participants) = 2
       /\ state[last.sock].user \in DOMAIN sessions[i].participants

\* C40: for every participant u of every session, the socket id stored in the
\* session's participant record equals the socketId of u's Peer.
C40_ParticipantSocketIsPeerSocket ==
  \A i \in SesIds :
    sessions[i] # NoSession
    => \A u \in DOMAIN sessions[i].participants :
         /\ peersByUserId[u] # NoPeer
         /\ peersByUserId[u].socketId = sessions[i].participants[u]

====
